---- MODULE Spec2Model ----
(***************************************************************************)
(* Model of propositions/operators.py: the five syntactic converters of    *)
(* propositional formulas to restricted operator bases.                    *)
(*                                                                         *)
(* A formula is a tuple: <<root>> for a variable or constant leaf,         *)
(* <<root, first>> for a unary node, <<root, first, second>> for a binary  *)
(* node.  The converters are pure recursive functions; the state machine   *)
(* draws an input formula, applies one converter, and then re-applies the  *)
(* same converter to its own output.                                       *)
(***************************************************************************)
EXTENDS Integers, Sequences, FiniteSets, TLC

VARIABLES formula, conv, pc, result, calls, detours, again

vars == <<formula, conv, pc, result, calls, detours, again>>

\* Bound on the number of nodes of an input formula.
MaxSize == 5

\* ------------------------------------------------------------------------
\* Formula AST (propositions/syntax.py)

Variables == {"p", "q"}

Constants == {"T", "F"}

BinaryOps == {"&", "|", "->", "+", "<->", "-&", "-|"}

is_variable(s) == s \in Variables

is_constant(s) == s \in Constants

is_unary(s) == s = "~"

is_binary(s) == s \in BinaryOps

Leaf(root) == <<root>>

Unary(root, first) == <<root, first>>

Binary(root, first, second) == <<root, first, second>>

\* Python's None, the value of a function that falls off its end.
None == <<"None">>

\* A root label outside the 11 recognized kinds.
UnknownRoot == "?"

RECURSIVE WellFormed(_)
WellFormed(f) ==
    IF Len(f) = 1 THEN is_variable(f[1]) \/ is_constant(f[1])
    ELSE IF Len(f) = 2 THEN is_unary(f[1]) /\ WellFormed(f[2])
    ELSE is_binary(f[1]) /\ WellFormed(f[2]) /\ WellFormed(f[3])

\* Truth-table evaluation (propositions/semantics.py)
RECURSIVE evaluate(_, _)
evaluate(f, model) ==
    LET root == f[1] IN
    IF is_constant(root) THEN root = "T"
    ELSE IF is_variable(root) THEN model[root]
    ELSE IF is_unary(root) THEN ~evaluate(f[2], model)
    ELSE LET a == evaluate(f[2], model)
             b == evaluate(f[3], model)
         IN  CASE root = "&"   -> a /\ b
               [] root = "|"   -> a \/ b
               [] root = "->"  -> (~a) \/ b
               [] root = "+"   -> a # b
               [] root = "<->" -> a = b
               [] root = "-&"  -> ~(a /\ b)
               [] root = "-|"  -> ~(a \/ b)

Models == [Variables -> BOOLEAN]

\* ------------------------------------------------------------------------
\* to_not_and_or

to_not_and_or_constant(root) ==
    LET p == Leaf("p") IN
    IF root = "T" THEN Binary("|", p, Unary("~", p))
    ELSE Binary("&", p, Unary("~", p))

\* Mutant: xor encoded with the identity of iff.
to_not_and_or_xor_as_iff(left, right) ==
    Binary("|", Binary("&", left, right),
                Binary("&", Unary("~", left), Unary("~", right)))

to_not_and_or_xor(left, right) ==
    Binary("|", Binary("&", left, Unary("~", right)),
                Binary("&", Unary("~", left), right))

\* Mutant: the nor case is missing, so the function falls off its end.
to_not_and_or_nor_missing(left, right) == None

to_not_and_or_nor(left, right) == Unary("~", Binary("|", left, right))

RECURSIVE to_not_and_or(_)
to_not_and_or(f) ==
    LET root == f[1] IN
    IF is_variable(root) THEN f
    ELSE IF is_constant(root) THEN to_not_and_or_constant(root)
    ELSE IF is_unary(root) THEN Unary("~", to_not_and_or(f[2]))
    ELSE LET left  == to_not_and_or(f[2])
             right == to_not_and_or(f[3])
         IN  IF root = "&" \/ root = "|" THEN Binary(root, left, right)
             ELSE IF root = "->" THEN Binary("|", Unary("~", left), right)
             ELSE IF root = "+" THEN to_not_and_or_xor(left, right)
             ELSE IF root = "<->" THEN
                 Binary("|", Binary("&", left, right),
                             Binary("&", Unary("~", left), Unary("~", right)))
             ELSE IF root = "-&" THEN Unary("~", Binary("&", left, right))
             ELSE IF root = "-|" THEN to_not_and_or_nor(left, right)
             ELSE None

\* Arguments of the recursive calls one invocation makes directly.
to_not_and_or_calls(f) ==
    LET root == f[1] IN
    IF is_variable(root) \/ is_constant(root) THEN {}
    ELSE IF is_unary(root) THEN {f[2]}
    ELSE {f[2], f[3]}

to_not_and_or_intermediates(f) == {}

\* ------------------------------------------------------------------------
\* to_not_and

to_not_and_constant(root) ==
    LET p == Leaf("p") IN
    IF root = "T" THEN Unary("~", Binary("&", p, Unary("~", p)))
    ELSE Binary("&", p, Unary("~", p))

\* Mutant: the nor case hands the formula it received back to to_not_and.
to_not_and_intermediates_self(f) ==
    LET root == f[1] IN
    IF Len(f) # 3 THEN {}
    ELSE IF root = "->" THEN {Binary("|", Unary("~", f[2]), f[3])}
    ELSE IF root = "+" THEN
        {Binary("|", Binary("&", f[2], Unary("~", f[3])),
                     Binary("&", Unary("~", f[2]), f[3]))}
    ELSE IF root = "<->" THEN
        {Binary("|", Binary("&", f[2], f[3]),
                     Binary("&", Unary("~", f[2]), Unary("~", f[3])))}
    ELSE IF root = "-|" THEN {Binary("-|", f[2], f[3])}
    ELSE {}

\* The formulas built and handed back to to_not_and (lines 100-114).
to_not_and_intermediates(f) ==
    LET root == f[1] IN
    IF Len(f) # 3 THEN {}
    ELSE IF root = "->" THEN {Binary("|", Unary("~", f[2]), f[3])}
    ELSE IF root = "+" THEN
        {Binary("|", Binary("&", f[2], Unary("~", f[3])),
                     Binary("&", Unary("~", f[2]), f[3]))}
    ELSE IF root = "<->" THEN
        {Binary("|", Binary("&", f[2], f[3]),
                     Binary("&", Unary("~", f[2]), Unary("~", f[3])))}
    ELSE IF root = "-|" THEN {Unary("~", Binary("|", f[2], f[3]))}
    ELSE {}

RECURSIVE to_not_and(_)
to_not_and(f) ==
    LET root == f[1] IN
    IF is_variable(root) THEN f
    ELSE IF is_constant(root) THEN to_not_and_constant(root)
    ELSE IF is_unary(root) THEN Unary("~", to_not_and(f[2]))
    ELSE LET left  == to_not_and(f[2])
             right == to_not_and(f[3])
         IN  IF root = "&" THEN Binary("&", left, right)
             ELSE IF root = "|" THEN
                 Unary("~", Binary("&", Unary("~", left), Unary("~", right)))
             ELSE IF root = "->" THEN
                 to_not_and(Binary("|", Unary("~", f[2]), f[3]))
             ELSE IF root = "+" THEN
                 to_not_and(Binary("|", Binary("&", f[2], Unary("~", f[3])),
                                        Binary("&", Unary("~", f[2]), f[3])))
             ELSE IF root = "<->" THEN
                 to_not_and(Binary("|", Binary("&", f[2], f[3]),
                                        Binary("&", Unary("~", f[2]),
                                                    Unary("~", f[3]))))
             ELSE IF root = "-&" THEN Unary("~", Binary("&", left, right))
             ELSE IF root = "-|" THEN
                 to_not_and(Unary("~", Binary("|", f[2], f[3])))
             ELSE f

to_not_and_calls(f) ==
    LET root == f[1] IN
    IF is_variable(root) \/ is_constant(root) THEN {}
    ELSE IF is_unary(root) THEN {f[2]}
    ELSE {f[2], f[3]} \cup to_not_and_intermediates(f)

\* ------------------------------------------------------------------------
\* to_nand

\* Mutant: the encodings of the two constants are swapped.
to_nand_constant_swapped(root) ==
    LET p == Leaf("p") IN
    IF root = "F" THEN Binary("-&", Binary("-&", p, p), Binary("-&", p, p))
    ELSE Binary("-&", p, Binary("-&", p, p))

to_nand_constant(root) ==
    LET p == Leaf("p") IN
    IF root = "T" THEN Binary("-&", Binary("-&", p, p), Binary("-&", p, p))
    ELSE Binary("-&", p, Binary("-&", p, p))

\* Mutant: the consequent is replaced by the antecedent.
to_nand_implies_drops_right(left, right) ==
    LET not_left == Binary("-&", left, left) IN
    Binary("-&", not_left, left)

to_nand_implies(left, right) ==
    LET not_left == Binary("-&", left, left) IN
    Binary("-&", not_left, right)

\* Mutant: the two operands are exchanged.
to_nand_nand_swapped(left, right) == Binary("-&", right, left)

to_nand_nand(left, right) == Binary("-&", left, right)

RECURSIVE to_nand(_)
to_nand(f) ==
    LET root == f[1] IN
    IF is_variable(root) THEN f
    ELSE IF is_constant(root) THEN to_nand_constant(root)
    ELSE IF is_unary(root) THEN
        LET inner == to_nand(f[2]) IN Binary("-&", inner, inner)
    ELSE LET left  == to_nand(f[2])
             right == to_nand(f[3])
         IN  IF root = "&" THEN
                 LET nand == Binary("-&", left, right) IN
                 Binary("-&", nand, nand)
             ELSE IF root = "|" THEN
                 LET left_not  == Binary("-&", left, left)
                     right_not == Binary("-&", right, right)
                 IN  Binary("-&", left_not, right_not)
             ELSE IF root = "->" THEN to_nand_implies(left, right)
             ELSE IF root = "+" THEN
                 LET a_or_b  == to_nand(Binary("|", f[2], f[3]))
                     a_and_b == to_nand(Binary("&", f[2], f[3]))
                     not_and == Binary("-&", a_and_b, a_and_b)
                 IN  to_nand(Binary("&", a_or_b, not_and))
             ELSE IF root = "<->" THEN
                 LET xor == to_nand(Binary("+", f[2], f[3])) IN
                 Binary("-&", xor, xor)
             ELSE IF root = "-&" THEN to_nand_nand(left, right)
             ELSE IF root = "-|" THEN
                 LET or_formula == to_nand(Binary("|", f[2], f[3])) IN
                 Binary("-&", or_formula, or_formula)
             ELSE f

\* Mutant: the last intermediate of xor mixes a converted and an
\* unconverted sub-tree.
to_nand_intermediates_mixed(f) ==
    LET root == f[1] IN
    IF Len(f) # 3 THEN {}
    ELSE IF root = "+" THEN
        LET a_or_b == to_nand(Binary("|", f[2], f[3])) IN
        {Binary("|", f[2], f[3]), Binary("&", f[2], f[3]),
         Binary("&", a_or_b, Unary("~", Binary("&", f[2], f[3])))}
    ELSE IF root = "<->" THEN {Binary("+", f[2], f[3])}
    ELSE IF root = "-|" THEN {Binary("|", f[2], f[3])}
    ELSE {}

\* The formulas built and handed back to to_nand (lines 164-179).
to_nand_intermediates(f) ==
    LET root == f[1] IN
    IF Len(f) # 3 THEN {}
    ELSE IF root = "+" THEN
        LET a_or_b  == to_nand(Binary("|", f[2], f[3]))
            a_and_b == to_nand(Binary("&", f[2], f[3]))
            not_and == Binary("-&", a_and_b, a_and_b)
        IN  {Binary("|", f[2], f[3]), Binary("&", f[2], f[3]),
             Binary("&", a_or_b, not_and)}
    ELSE IF root = "<->" THEN {Binary("+", f[2], f[3])}
    ELSE IF root = "-|" THEN {Binary("|", f[2], f[3])}
    ELSE {}

to_nand_calls(f) ==
    LET root == f[1] IN
    IF is_variable(root) \/ is_constant(root) THEN {}
    ELSE IF is_unary(root) THEN {f[2]}
    ELSE {f[2], f[3]} \cup to_nand_intermediates(f)

\* ------------------------------------------------------------------------
\* to_implies_not

to_implies_not_constant(root) ==
    LET p == Leaf("p") IN
    IF root = "T" THEN Binary("->", p, p)
    ELSE Unary("~", Binary("->", p, p))

\* The formulas built and handed back to to_implies_not (lines 223-234).
to_implies_not_intermediates(f) ==
    LET root == f[1] IN
    IF Len(f) # 3 THEN {}
    ELSE IF root = "+" THEN
        {Binary("|", Binary("&", f[2], Unary("~", f[3])),
                     Binary("&", Unary("~", f[2]), f[3]))}
    ELSE IF root = "<->" THEN
        {Binary("|", Binary("&", f[2], f[3]),
                     Binary("&", Unary("~", f[2]), Unary("~", f[3])))}
    ELSE IF root = "-&" THEN {Unary("~", Binary("&", f[2], f[3]))}
    ELSE IF root = "-|" THEN {Unary("~", Binary("|", f[2], f[3]))}
    ELSE {}

RECURSIVE to_implies_not(_)
to_implies_not(f) ==
    LET root == f[1] IN
    IF is_variable(root) THEN f
    ELSE IF is_constant(root) THEN to_implies_not_constant(root)
    ELSE IF is_unary(root) THEN Unary("~", to_implies_not(f[2]))
    ELSE LET left  == to_implies_not(f[2])
             right == to_implies_not(f[3])
         IN  IF root = "->" THEN Binary("->", left, right)
             ELSE IF root = "&" THEN
                 Unary("~", Binary("->", left, Unary("~", right)))
             ELSE IF root = "|" THEN Binary("->", Unary("~", left), right)
             ELSE IF root = "+" THEN
                 to_implies_not(
                     Binary("|", Binary("&", f[2], Unary("~", f[3])),
                                 Binary("&", Unary("~", f[2]), f[3])))
             ELSE IF root = "<->" THEN
                 to_implies_not(
                     Binary("|", Binary("&", f[2], f[3]),
                                 Binary("&", Unary("~", f[2]),
                                             Unary("~", f[3]))))
             ELSE IF root = "-&" THEN
                 to_implies_not(Unary("~", Binary("&", f[2], f[3])))
             ELSE IF root = "-|" THEN
                 to_implies_not(Unary("~", Binary("|", f[2], f[3])))
             ELSE f

to_implies_not_calls(f) ==
    LET root == f[1] IN
    IF is_variable(root) \/ is_constant(root) THEN {}
    ELSE IF is_unary(root) THEN {f[2]}
    ELSE {f[2], f[3]} \cup to_implies_not_intermediates(f)

\* ------------------------------------------------------------------------
\* to_implies_false

\* Mutant: both constants are returned unchanged.
to_implies_false_constant_kept(root) ==
    IF root = "F" THEN Leaf("F")
    ELSE Leaf("T")

to_implies_false_constant(root) ==
    IF root = "F" THEN Leaf("F")
    ELSE Binary("->", Leaf("F"), Leaf("F"))

\* The formulas built and handed back to to_implies_false (lines 278-290).
to_implies_false_intermediates(f) ==
    LET root == f[1] IN
    IF Len(f) # 3 THEN {}
    ELSE IF root = "+" THEN
        {Binary("|", Binary("&", f[2], Unary("~", f[3])),
                     Binary("&", Unary("~", f[2]), f[3]))}
    ELSE IF root = "<->" THEN
        {Binary("|", Binary("&", f[2], f[3]),
                     Binary("&", Unary("~", f[2]), Unary("~", f[3])))}
    ELSE IF root = "-&" THEN {Unary("~", Binary("&", f[2], f[3]))}
    ELSE IF root = "-|" THEN {Unary("~", Binary("|", f[2], f[3]))}
    ELSE {}

RECURSIVE to_implies_false(_)
to_implies_false(f) ==
    LET root == f[1] IN
    IF is_variable(root) THEN f
    ELSE IF is_constant(root) THEN to_implies_false_constant(root)
    ELSE IF is_unary(root) THEN
        LET inner == to_implies_false(f[2]) IN
        Binary("->", inner, Leaf("F"))
    ELSE LET left  == to_implies_false(f[2])
             right == to_implies_false(f[3])
         IN  IF root = "->" THEN Binary("->", left, right)
             ELSE IF root = "&" THEN
                 Binary("->",
                        Binary("->", left, Binary("->", right, Leaf("F"))),
                        Leaf("F"))
             ELSE IF root = "|" THEN
                 Binary("->", Binary("->", left, Leaf("F")), right)
             ELSE IF root = "+" THEN
                 to_implies_false(
                     Binary("|", Binary("&", f[2], Unary("~", f[3])),
                                 Binary("&", Unary("~", f[2]), f[3])))
             ELSE IF root = "<->" THEN
                 to_implies_false(
                     Binary("|", Binary("&", f[2], f[3]),
                                 Binary("&", Unary("~", f[2]),
                                             Unary("~", f[3]))))
             ELSE IF root = "-&" THEN
                 to_implies_false(Unary("~", Binary("&", f[2], f[3])))
             ELSE IF root = "-|" THEN
                 to_implies_false(Unary("~", Binary("|", f[2], f[3])))
             ELSE f

to_implies_false_calls(f) ==
    LET root == f[1] IN
    IF is_variable(root) \/ is_constant(root) THEN {}
    ELSE IF is_unary(root) THEN {f[2]}
    ELSE {f[2], f[3]} \cup to_implies_false_intermediates(f)

\* ------------------------------------------------------------------------
\* Inputs

Leaves == {Leaf(s) : s \in Variables \cup Constants}

\* The well-formed formulas with exactly n nodes.
FormulasOfSize[n \in 1..(MaxSize + 1)] ==
    IF n = 1 THEN Leaves
    ELSE {Unary("~", x) : x \in FormulasOfSize[n - 1]}
         \cup UNION { {Binary(op, a, b) : op \in BinaryOps,
                                          a \in FormulasOfSize[k],
                                          b \in FormulasOfSize[n - 1 - k]}
                      : k \in 1..(n - 2) }

WellFormedInputs == UNION {FormulasOfSize[n] : n \in 1..MaxSize}

\* Binary-shaped formulas whose root label is not a recognized kind.
MalformedInputs == {Binary(UnknownRoot, a, b) : a, b \in Leaves}

Inputs == WellFormedInputs \cup MalformedInputs

Converters ==
    {"to_not_and_or", "to_not_and", "to_nand", "to_implies_not",
     "to_implies_false"}

Apply(c, f) ==
    CASE c = "to_not_and_or"    -> to_not_and_or(f)
      [] c = "to_not_and"       -> to_not_and(f)
      [] c = "to_nand"          -> to_nand(f)
      [] c = "to_implies_not"   -> to_implies_not(f)
      [] c = "to_implies_false" -> to_implies_false(f)

Calls(c, f) ==
    CASE c = "to_not_and_or"    -> to_not_and_or_calls(f)
      [] c = "to_not_and"       -> to_not_and_calls(f)
      [] c = "to_nand"          -> to_nand_calls(f)
      [] c = "to_implies_not"   -> to_implies_not_calls(f)
      [] c = "to_implies_false" -> to_implies_false_calls(f)

\* ------------------------------------------------------------------------
\* State machine

Init ==
    /\ formula \in Inputs
    /\ conv = "none"
    /\ pc = "start"
    /\ result = None
    /\ calls = {}
    /\ detours = {}
    /\ again = None

ToNotAndOr ==
    /\ pc = "start"
    /\ conv' = "to_not_and_or"
    /\ result' = to_not_and_or(formula)
    /\ calls' = to_not_and_or_calls(formula)
    /\ detours' = to_not_and_or_intermediates(formula)
    /\ pc' = "done"
    /\ UNCHANGED <<formula, again>>

ToNotAnd ==
    /\ pc = "start"
    /\ conv' = "to_not_and"
    /\ result' = to_not_and(formula)
    /\ calls' = to_not_and_calls(formula)
    /\ detours' = to_not_and_intermediates(formula)
    /\ pc' = "done"
    /\ UNCHANGED <<formula, again>>

ToNand ==
    /\ pc = "start"
    /\ conv' = "to_nand"
    /\ result' = to_nand(formula)
    /\ calls' = to_nand_calls(formula)
    /\ detours' = to_nand_intermediates(formula)
    /\ pc' = "done"
    /\ UNCHANGED <<formula, again>>

ToImpliesNot ==
    /\ pc = "start"
    /\ conv' = "to_implies_not"
    /\ result' = to_implies_not(formula)
    /\ calls' = to_implies_not_calls(formula)
    /\ detours' = to_implies_not_intermediates(formula)
    /\ pc' = "done"
    /\ UNCHANGED <<formula, again>>

ToImpliesFalse ==
    /\ pc = "start"
    /\ conv' = "to_implies_false"
    /\ result' = to_implies_false(formula)
    /\ calls' = to_implies_false_calls(formula)
    /\ detours' = to_implies_false_intermediates(formula)
    /\ pc' = "done"
    /\ UNCHANGED <<formula, again>>

\* The caller feeds a converter's output back to the same converter.
Reconvert ==
    /\ pc = "done"
    /\ result # None
    /\ again' = Apply(conv, result)
    /\ pc' = "redone"
    /\ UNCHANGED <<formula, conv, result, calls, detours>>

Next ==
    \/ ToNotAndOr
    \/ ToNotAnd
    \/ ToNand
    \/ ToImpliesNot
    \/ ToImpliesFalse
    \/ Reconvert

Spec == Init /\ [][Next]_vars

\* ------------------------------------------------------------------------
\* Observations on formulas used by the properties

\* The operator and constant labels occurring in a formula.
RECURSIVE Labels(_)
Labels(f) ==
    IF Len(f) = 1 THEN (IF is_variable(f[1]) THEN {} ELSE {f[1]})
    ELSE IF Len(f) = 2 THEN {f[1]} \cup Labels(f[2])
    ELSE {f[1]} \cup Labels(f[2]) \cup Labels(f[3])

\* The variable names occurring in a formula.
RECURSIVE VariablesOf(_)
VariablesOf(f) ==
    IF Len(f) = 1 THEN (IF is_variable(f[1]) THEN {f[1]} ELSE {})
    ELSE IF Len(f) = 2 THEN VariablesOf(f[2])
    ELSE VariablesOf(f[2]) \cup VariablesOf(f[3])

HasConstant(f) == Labels(f) \cap Constants # {}

RECURSIVE Depth(_)
Depth(f) ==
    IF Len(f) = 1 THEN 1
    ELSE IF Len(f) = 2 THEN 1 + Depth(f[2])
    ELSE 1 + (IF Depth(f[2]) >= Depth(f[3]) THEN Depth(f[2]) ELSE Depth(f[3]))

\* g occurs in f as a sub-tree other than f itself.
RECURSIVE ProperSubtree(_, _)
ProperSubtree(g, f) ==
    IF Len(f) = 1 THEN FALSE
    ELSE IF Len(f) = 2 THEN g = f[2] \/ ProperSubtree(g, f[2])
    ELSE \/ g = f[2]
         \/ g = f[3]
         \/ ProperSubtree(g, f[2])
         \/ ProperSubtree(g, f[3])

\* The declared target basis of each converter.
Basis(c) ==
    CASE c = "to_not_and_or"    -> {"~", "&", "|"}
      [] c = "to_not_and"       -> {"~", "&"}
      [] c = "to_nand"          -> {"-&"}
      [] c = "to_implies_not"   -> {"->", "~"}
      [] c = "to_implies_false" -> {"->", "F"}

Converted == pc = "done" /\ WellFormed(formula)

SameTruthTable(f, g) == \A m \in Models : evaluate(f, m) = evaluate(g, m)

\* ------------------------------------------------------------------------
\* C1: to_nand preserves the truth table: for every well-formed formula and
\* every assignment to the variables, the output of to_nand evaluates to the
\* same value as the input (including T, F and implications).
C1_NandPreservesTruthTable ==
    (Converted /\ conv = "to_nand") => SameTruthTable(formula, result)

\* C2: each of to_not_and_or, to_not_and, to_implies_not and
\* to_implies_false preserves the truth table of every well-formed formula
\* under every assignment to the variables of the input and of the output.
C2_OthersPreserveTruthTable ==
    (Converted /\ conv \in Converters \ {"to_nand"})
        => SameTruthTable(formula, result)

C2_Witness ==
    /\ Converted
    /\ conv = "to_implies_false"
    /\ formula[1] = "<->"
    /\ formula[2][1] = "+"
    /\ HasConstant(formula)
    /\ result # formula

\* C3: basis closure: every operator or constant label occurring in the
\* output of a converter applied to a well-formed formula lies in that
\* converter's basis; so T never occurs in an output of to_implies_false and
\* no constant occurs in an output of the other four.
C3_BasisClosure ==
    Converted =>
        /\ Labels(result) \subseteq Basis(conv)
        /\ "T" \notin Labels(result)
        /\ conv # "to_implies_false" => ~HasConstant(result)

C3_Witness ==
    /\ Converted
    /\ conv = "to_implies_false"
    /\ formula[1] = "-|"
    /\ "T" \in Labels(formula)
    /\ "+" \in Labels(formula)

\* C4 as stated: the set of variable names of the output equals the set of
\* variable names of the input, for every well-formed input and each of the
\* five converters, also when the input contains constants.
C4_SameVariables ==
    Converted => VariablesOf(result) = VariablesOf(formula)

\* C4 amended: no variable is dropped, and the only variable ever introduced
\* is the placeholder p, exactly when the input contains a constant and the
\* converter is not to_implies_false.
C4_VariablesUpToPlaceholder ==
    Converted =>
        VariablesOf(result) =
            VariablesOf(formula) \cup
                (IF HasConstant(formula) /\ conv # "to_implies_false"
                 THEN {"p"} ELSE {})

C4_Witness ==
    /\ Converted
    /\ conv = "to_implies_not"
    /\ HasConstant(formula)
    /\ VariablesOf(formula) = {"q"}
    /\ VariablesOf(result) = {"p", "q"}

\* C6: idempotence on own output: converting the output of a converter again
\* with the same converter returns it structurally unchanged, and a
\* well-formed formula already within the converter's basis is returned
\* unchanged.
C6_Idempotent ==
    /\ (pc = "redone" /\ WellFormed(formula)) => again = result
    /\ (Converted /\ Labels(formula) \subseteq Basis(conv)) => result = formula

C6_Witness ==
    /\ pc = "redone"
    /\ WellFormed(formula)
    /\ conv = "to_nand"
    /\ formula[1] = "+"
    /\ result # formula
    /\ again = result

InvalidInputError == <<"InvalidInputError">>

\* C10: every converter, given a binary-shaped formula whose root label is
\* not one of the 11 recognized kinds, signals an invalid-input error rather
\* than returning a result (the input unchanged, or an absent value).
C10_UnknownRootSignalsError ==
    (pc = "done" /\ formula \in MalformedInputs) => result = InvalidInputError

\* ------------------------------------------------------------------------
\* Recursion structure

\* The operators a converter handles by building an intermediate formula and
\* calling itself on it.
DetourOps(c) ==
    CASE c = "to_not_and_or"    -> {}
      [] c = "to_not_and"       -> {"->", "+", "<->", "-|"}
      [] c = "to_nand"          -> {"+", "<->", "-|"}
      [] c = "to_implies_not"   -> {"+", "<->", "-&", "-|"}
      [] c = "to_implies_false" -> {"+", "<->", "-&", "-|"}

\* Weighted count of the occurrences of the detour operators of converter c;
\* xor and iff count their children twice because their intermediates
\* duplicate them, and iff weighs more than xor because to_nand detours from
\* iff to xor.
RECURSIVE DetourWeight(_, _)
DetourWeight(c, f) ==
    IF Len(f) = 1 THEN 0
    ELSE IF Len(f) = 2 THEN DetourWeight(c, f[2])
    ELSE LET below == DetourWeight(c, f[2]) + DetourWeight(c, f[3])
             own   == IF f[1] \notin DetourOps(c) THEN 0
                      ELSE IF f[1] = "<->" THEN 2 ELSE 1
         IN  own + (IF f[1] \in {"+", "<->"} THEN 2 * below ELSE below)

\* Every call in the call tree of converter c on f is made on a proper
\* sub-tree of its caller's argument or on a formula of smaller detour weight.
RECURSIVE CallTreeDecreases(_, _)
CallTreeDecreases(c, f) ==
    \A g \in Calls(c, f) :
        /\ \/ ProperSubtree(g, f)
           \/ DetourWeight(c, g) < DetourWeight(c, f)
        /\ CallTreeDecreases(c, g)

\* The call tree of converter c on f is at most fuel invocations deep.
RECURSIVE CallDepthWithin(_, _, _)
CallDepthWithin(c, f, fuel) ==
    /\ fuel > 0
    /\ \A g \in Calls(c, f) : CallDepthWithin(c, g, fuel - 1)

\* g is built with or/and/not over the sub-formulas a and b.
RECURSIVE BuiltOverOriginals(_, _, _)
BuiltOverOriginals(g, a, b) ==
    \/ g = a
    \/ g = b
    \/ Len(g) = 2 /\ g[1] = "~" /\ BuiltOverOriginals(g[2], a, b)
    \/ /\ Len(g) = 3
       /\ g[1] \in {"&", "|"}
       /\ BuiltOverOriginals(g[2], a, b)
       /\ BuiltOverOriginals(g[3], a, b)

\* C5: totality: for every well-formed formula each converter terminates,
\* also through the detour calls on intermediate formulas (its call tree is
\* at most six invocations deep per level of the input), and returns a
\* well-formed formula, never an absent result.
C5_Total ==
    Converted =>
        /\ result # None
        /\ WellFormed(result)
        /\ CallDepthWithin(conv, formula, 6 * Depth(formula))

C5_Witness ==
    /\ Converted
    /\ conv = "to_nand"
    /\ formula[1] = "<->"
    /\ formula[2][1] = "-|"
    /\ detours # {}
    /\ ~CallDepthWithin(conv, formula, 2 * Depth(formula))

\* C7 as stated: in each converter the argument of every recursive call is
\* a proper sub-tree of the argument of the calling invocation.
C7_CallsOnProperSubtrees ==
    Converted => \A g \in calls : ProperSubtree(g, formula)

\* C7 amended: the argument of every recursive call, anywhere in the call
\* tree, is either a proper sub-tree of the caller's argument or a newly
\* built intermediate formula with a strictly smaller weighted count of the
\* operators the converter detours on; to_not_and_or only ever calls itself
\* on direct children.
C7_CallsDecrease ==
    Converted =>
        /\ \A g \in calls :
              /\ \/ ProperSubtree(g, formula)
                 \/ /\ g \in detours
                    /\ DetourWeight(conv, g) < DetourWeight(conv, formula)
              /\ CallTreeDecreases(conv, g)
        /\ conv = "to_not_and_or" => detours = {}

C7_Witness ==
    /\ Converted
    /\ conv = "to_not_and"
    /\ formula[1] = "->"
    /\ \E g \in calls :
          /\ ~ProperSubtree(g, formula)
          /\ DetourWeight(conv, g) < DetourWeight(conv, formula)

\* C9 as stated: in to_nand, for a root xor or iff, every intermediate
\* formula handed to the recursive call is built with or/and/not over the
\* original sub-formulas only; no output of to_nand is converted again.
C9_NoDoubleConversion ==
    (Converted /\ conv = "to_nand" /\ formula[1] \in {"+", "<->"}) =>
        \A g \in detours : BuiltOverOriginals(g, formula[2], formula[3])

\* C9 amended: for a root iff the one intermediate is xor(A,B) over the
\* original sub-formulas; for a root xor the intermediates or(A,B) and
\* and(A,B) are over the original sub-formulas, and the third is an and whose
\* two children are outputs of to_nand: they contain no label but nand, and
\* converting them again returns them structurally unchanged.
C9_DoubleConversionIsHarmless ==
    (Converted /\ conv = "to_nand" /\ formula[1] \in {"+", "<->"}) =>
        LET a == formula[2]
            b == formula[3]
            direct == {<<"|", a, b>>, <<"&", a, b>>}
        IN  /\ formula[1] = "<->" => detours = {<<"+", a, b>>}
            /\ formula[1] = "+" =>
                 /\ direct \subseteq detours
                 /\ Cardinality(detours \ direct) = 1
                 /\ \A g \in detours \ direct :
                       /\ Len(g) = 3
                       /\ g[1] = "&"
                       /\ Labels(g[2]) \cup Labels(g[3]) \subseteq {"-&"}
                       /\ to_nand(g[2]) = g[2]
                       /\ to_nand(g[3]) = g[3]
                       /\ result = to_nand(g)

C9_Witness ==
    /\ Converted
    /\ conv = "to_nand"
    /\ formula[1] = "+"
    /\ Len(formula[2]) = 3
    /\ \E g \in detours : ~BuiltOverOriginals(g, formula[2], formula[3])

====
